---- MODULE Spec2Model ----
(***************************************************************************)
(* Model of cogs/graph.py: the Graph cog of a discord.py bot.              *)
(*                                                                         *)
(* Every command invocation is a coroutine.  It runs without interruption  *)
(* from one `await` to the next, so one action of the model is the code    *)
(* executed between two suspension points:                                 *)
(*   Top / Users / Server  from the start of the handler to the first GET  *)
(*   WindowResponse        from the answer of the window GET to the next   *)
(*   DayResponse           from the answer of a daily GET to the next      *)
(*   SampleResponse        from the answer of a server-sample GET on       *)
(*   SendDone              the completion of `await ctx.send(...)`         *)
(* Times are counted in days before "now"; the drift of utcnow() between   *)
(* two requests of one invocation is not represented.                      *)
(***************************************************************************)
EXTENDS Integers, Sequences, FiniteSets, TLC

VARIABLES
    pc,               \* per invocation: where the coroutine is suspended
    cmd,              \* per invocation: "top", "users", "server" or "none"
    args,             \* per invocation: the arguments as the user typed them
    days,             \* create_graph_messages: parameter days
    limit,            \* create_graph_messages: parameter limit
    users,            \* create_graph_messages: parameter users (None or a list)
    i,                \* create_graph_messages: loop variable of `for i in range(days)`
    uid_order,        \* insertion order of the keys of user_names / graph_data
    user_names,       \* create_graph_messages: dict discord_id -> user
    num_messages,     \* create_graph_messages: dict discord_id -> messages
    graph_data,       \* create_graph_messages: dict discord_id -> list of [x, y]
    retrieved_users,  \* create_graph_messages: dict discord_id -> row of the last day
    api_data,         \* the decoded JSON the name api_data is bound to
    status,           \* response.status of the last answered request
    num_samples,      \* server: parameter num_samples
    sample_distance,  \* server: parameter sample_distance
    w,                \* server: loop variable of `for w in range(num_samples)`
    samples,          \* server: the list num_messages of (end, total) pairs
    requests,         \* per invocation: the GET requests issued so far, in order
    result,           \* per invocation: how the build ended
    outgoing,         \* per invocation: the argument of the pending ctx.send
    reply,            \* per invocation: what ctx.send delivered
    file,             \* last_graph.png, shared by all invocations
    plot,             \* matplotlib.pyplot's global state, shared by all invocations
    file0,            \* per invocation: last_graph.png when the handler started
    plot0             \* per invocation: pyplot's state when the handler started

locals == <<cmd, args, days, limit, users, i, uid_order, user_names, num_messages,
            graph_data, retrieved_users, api_data, status, num_samples, sample_distance,
            w, samples>>
vars == <<pc, locals, requests, result, outgoing, reply, file, plot, file0, plot0>>

----------------------------------------------------------------------------
(* Bounds of the model *)

MaxDaysArg == 2     \* largest `days` argument tried under Spec
MaxSamplesArg == 2  \* largest `num_samples` argument tried under Spec

(* Constants of the program *)

HTTP_OK == 200      \* response.status != 200
DaysLow == 1        \* clamp(days, 1, 30)
DaysHigh == 30
TopLow == 1         \* clamp(n, 1, 10)
TopHigh == 10
MembersMax == 10    \* members[:10]
DiscrimLen == 5     \* user_names[uid][:-5]
DefaultSamples == 13  \* num_samples: int = 13
DefaultDistance == 7  \* sample_distance: int = 7
YearDays == 365       \* end.strftime('%b %d') names a day of the year, not the year

----------------------------------------------------------------------------
(* Values *)

None == <<>>                 \* Python's None, and an absent query parameter
Some(x) == <<x>>

Procs == DOMAIN pc

\* user names are strings "name#dddd", kept as sequences of characters
Names == { <<"a", "#", "0", "0", "0", "1">>, <<"b", "o", "#", "0", "0", "0", "2">> }

\* the statistics service of the model knows two users, who write at most
\* one message in a window, and answers with at most two rows; a body may
\* name a user twice and may name users that were not asked for
UserIds == {1, 2}

Messages == {0, 1}

BodyLengths == {0, 1, 2}

Rows == [discord_id : UserIds, user : Names, messages : Messages]

Bodies == UNION { [1..n -> Rows] : n \in BodyLengths }

Failure == [status |-> 500, body |-> <<>>]
Ok(body) == [status |-> HTTP_OK, body |-> body]

Responses == { Failure } \cup { Ok(b) : b \in Bodies }

EmptyDict == [k \in {} |-> None]

NoFile == [writer |-> -1, image |-> [kind |-> "absent"]]
OldFile == [writer |-> 0, image |-> [kind |-> "earlier run"]]
FreshPlot == [figures |-> 0, lines |-> <<>>]

\* api_data is bound to a list (a response body) or to one row of it
JsonList(body) == [json |-> "list", value |-> body]
JsonRow(row) == [json |-> "object", value |-> row]
Unbound == [json |-> "unbound", value |-> <<>>]

NoReply == [kind |-> "none"]
FileToSend == [kind |-> "file"]
NothingFound == [kind |-> "text", text |-> "Nothing found"]

----------------------------------------------------------------------------
(* Pure functions of the program *)

\* mutant of clamp: the upper bound is not applied
clampLowOnly(value, low, high) ==
    IF value < low THEN low ELSE value

clamp(value, low, high) ==
    IF value < low THEN low
    ELSE IF value > high THEN high
    ELSE value

\* `members[:10]`
Slice(list, n) == SubSeq(list, 1, IF Len(list) < n THEN Len(list) ELSE n)

\* `name[:-5]`: everything but the last five characters
DropLast(s, n) == IF Len(s) > n THEN SubSeq(s, 1, Len(s) - n) ELSE <<>>

Max(S) == CHOOSE x \in S : \A y \in S : y <= x

\* the key order of `{data['discord_id']: ... for data in api_data}`:
\* a key keeps the position of its first occurrence
RECURSIVE KeyOrder(_)
KeyOrder(body) ==
    IF body = <<>> THEN <<>>
    ELSE LET n == Len(body)
             before == KeyOrder(SubSeq(body, 1, n - 1))
             key == body[n].discord_id
         IN  IF \E k \in 1..Len(before) : before[k] = key
             THEN before
             ELSE Append(before, key)

Keys(body) == { body[k].discord_id : k \in 1..Len(body) }

\* the row a dict comprehension keeps for a key: the last one with that key
LastRow(body, uid) ==
    body[Max({ k \in 1..Len(body) : body[k].discord_id = uid })]

\* `{data['discord_id']: data['user'] for data in api_data}`
UserNames(body) == [uid \in Keys(body) |-> LastRow(body, uid).user]

\* `{data['discord_id']: data['messages'] for data in api_data}`
NumMessages(body) == [uid \in Keys(body) |-> LastRow(body, uid).messages]

\* mutant of SeedSeries: the series start empty, `{uid: [] for ...}`
SeedSeriesEmpty(names) == [uid \in DOMAIN names |-> <<>>]

\* `{uid: [[0, 0]] for uid in user_names}`
SeedSeries(names) == [uid \in DOMAIN names |-> << <<0, 0>> >>]

\* `{x['discord_id']: x for x in api_data}`
RetrievedUsers(body) == [uid \in Keys(body) |-> LastRow(body, uid)]

\* `data[-1][1] if data else 0`
CurrentMsg(data) == IF data # <<>> THEN data[Len(data)][2] ELSE 0

\* mutant of NewMessages: a user the day's response lacks restarts at 0
NewMessagesNoCarry(data, retrieved, uid) ==
    IF uid \notin DOMAIN retrieved
    THEN 0
    ELSE CurrentMsg(data) + retrieved[uid].messages

\* mutant of NewMessages: the day's count is not added to the running total
NewMessagesNotCumulative(data, retrieved, uid) ==
    IF uid \notin DOMAIN retrieved
    THEN CurrentMsg(data)
    ELSE retrieved[uid].messages

\* the new cumulative count of one user for one day
NewMessages(data, retrieved, uid) ==
    IF uid \notin DOMAIN retrieved
    THEN CurrentMsg(data)
    ELSE CurrentMsg(data) + retrieved[uid].messages

\* one pass of `for uid, data in graph_data.items()` of day index day
AppendDay(gd, retrieved, day) ==
    [uid \in DOMAIN gd |->
        Append(gd[uid], <<day + 1, NewMessages(gd[uid], retrieved, uid)>>)]

\* `user_names[uid] = api_data['user']` for every user of the day's response
RenameUsers(names, retrieved) ==
    [uid \in DOMAIN names |->
        IF uid \in DOMAIN retrieved THEN retrieved[uid].user ELSE names[uid]]

\* `sum(data['messages'] for data in api_data)`
RECURSIVE SumMessages(_)
SumMessages(body) ==
    IF body = <<>> THEN 0
    ELSE body[1].messages + SumMessages(Tail(body))

\* `end.strftime('%b %d')` of the instant end days before now: the label keeps
\* the day of the year and drops the year
DateLabel(end) == end % YearDays

\* mutant of Reverse: the list is left in fetch order
ReverseForgotten(list) == list

\* `list.reverse()`
Reverse(list) == [k \in 1..Len(list) |-> list[Len(list) + 1 - k]]

----------------------------------------------------------------------------
(* Requests: the query parameters of one GET, times in days before now *)

\* the first request of create_graph_messages
WindowRequest(d, lim, usr) ==
    [start |-> d,
     end |-> None,
     limit |-> IF lim > 0 THEN Some(lim) ELSE None,
     discord_id |-> IF usr # None THEN usr[1] ELSE <<>>]

\* the request of day index day of create_graph_messages
DayRequest(d, day, order) ==
    [start |-> d - day,
     end |-> Some(d - day - 1),
     limit |-> None,
     discord_id |-> order]

\* the request of sample k of server
SampleRequest(k, distance) ==
    [start |-> (k + 1) * distance,
     end |-> Some(k * distance),
     limit |-> None,
     discord_id |-> <<>>]

----------------------------------------------------------------------------
(* Rendering: pyplot's shared state and the image file *)

\* plt.plot on the current axes; pyplot makes a figure when there is none
PltPlot(ctx, line) ==
    [figures |-> IF ctx.figures = 0 THEN 1 ELSE ctx.figures,
     lines |-> Append(ctx.lines, line)]

RECURSIVE PltPlotAll(_, _)
PltPlotAll(ctx, lines) ==
    IF lines = <<>> THEN ctx
    ELSE PltPlotAll(PltPlot(ctx, Head(lines)), Tail(lines))

\* the lines create_graph_messages draws, one per user in dict order
UserLines(order, names, totals, gd) ==
    [k \in 1..Len(order) |->
        LET uid == order[k]
        IN  [label |-> <<DropLast(names[uid], DiscrimLen), totals[uid]>>,
             xaxis |-> [j \in 1..Len(gd[uid]) |-> gd[uid][j][1]],
             yaxis |-> [j \in 1..Len(gd[uid]) |-> gd[uid][j][2]]]]

\* plt.savefig of create_graph_messages: what the current axes hold
UserImage(ctx, d) ==
    [kind |-> "users", lines |-> ctx.lines, since |-> d]

\* plt.cla()
PltCla(ctx) == [ctx EXCEPT !.lines = <<>>]

\* plt.subplots(): a new figure with new, empty axes becomes the current one
PltSubplots(ctx) == [figures |-> ctx.figures + 1, lines |-> <<>>]

\* fig.savefig of server: the one line of the new axes
ServerImage(num) ==
    [kind |-> "server",
     values_x |-> [k \in 1..Len(num) |-> num[k][1]],
     values_y |-> [k \in 1..Len(num) |-> num[k][2]]]

\* fig.clear()
FigClear(ctx) == [ctx EXCEPT !.lines = <<>>]


----------------------------------------------------------------------------
(* State changes shared by the handlers *)

Set(f, p, v) == [f EXCEPT ![p] = v]

\* the caller of create_graph_messages, after it returned: top and users
\* open the file and send it, or send the text
Answer(p, ok) ==
    /\ result' = Set(result, p, IF ok THEN "True" ELSE "False")
    /\ outgoing' = Set(outgoing, p, IF ok THEN FileToSend ELSE NothingFound)
    /\ pc' = Set(pc, p, "sending")

\* mutant of BuildFails: what has been built is saved before the return
BuildFailsSavesPartial(p) ==
    /\ Answer(p, FALSE)
    /\ file' = [writer |-> p, image |-> UserImage(plot, days[p])]
    /\ plot' = PltPlot(plot, <<>>)

\* `return False` of create_graph_messages before anything is drawn
BuildFails(p) ==
    /\ Answer(p, FALSE)
    /\ UNCHANGED <<file, plot>>

\* `return False` of server: the handler ends and nothing is sent
ServerFails(p) ==
    /\ result' = Set(result, p, "False")
    /\ pc' = Set(pc, p, "done")
    /\ UNCHANGED <<outgoing, file, plot>>

\* mutant of StatusFails: the status is not looked at
StatusIgnored(r) == FALSE

\* mutant of NoData: an empty answer is not looked at
NoDataIgnored(body) == FALSE

\* `response.status != 200`
StatusFails(r) == r.status # HTTP_OK

\* `not api_data`
NoData(body) == body = <<>>

\* `api_data = retrieved_users[uid]` rebinds api_data to the row of the last
\* tracked user the day's response holds
ApiDataAfterDay(body, order, retrieved) ==
    LET present == { k \in 1..Len(order) : order[k] \in DOMAIN retrieved }
    IN  IF present = {} THEN JsonList(body)
        ELSE JsonRow(retrieved[order[Max(present)]])

\* `all([not x for x in graph_data.values()])`
NothingToPlot(gd) == \A uid \in DOMAIN gd : gd[uid] = <<>>

\* create_graph_messages after its loop: the check of the series, the
\* drawing, the return, and the caller up to its ctx.send
Finish(p, order, names, totals, gd) ==
    IF NothingToPlot(gd)
    THEN BuildFails(p)
    ELSE LET drawn == PltPlotAll(plot, UserLines(order, names, totals, gd))
         IN  /\ file' = [writer |-> p, image |-> UserImage(drawn, days[p])]
             /\ plot' = PltCla(drawn)
             /\ Answer(p, TRUE)

\* the days the loop `for i in range(days)` still has to fetch after day
MoreDays(d, day) == day + 1 < d

\* create_graph_messages from its call to its first await
Build(p, c, d, lim, usr) ==
    /\ cmd' = Set(cmd, p, c)
    /\ days' = Set(days, p, d)
    /\ limit' = Set(limit, p, lim)
    /\ users' = Set(users, p, usr)
    /\ requests' = Set(requests, p, << WindowRequest(d, lim, usr) >>)
    /\ pc' = Set(pc, p, "await_window")
    /\ file0' = Set(file0, p, file)
    /\ plot0' = Set(plot0, p, plot)
    /\ UNCHANGED <<i, uid_order, user_names, num_messages, graph_data,
                   retrieved_users, api_data, status, num_samples,
                   sample_distance, w, samples, result, outgoing, reply,
                   file, plot>>

----------------------------------------------------------------------------
(* The command handlers *)

\* graph top <n> <days>
Top(p, n, d) ==
    /\ pc[p] = "idle"
    /\ args' = Set(args, p, [n |-> n, days |-> d])
    /\ Build(p, "top", clamp(d, DaysLow, DaysHigh), clamp(n, TopLow, TopHigh), None)

\* graph users <members...> <days>
Users(p, members, d) ==
    /\ pc[p] = "idle"
    /\ args' = Set(args, p, [members |-> members, days |-> d])
    /\ IF members = <<>>
       THEN \* raise commands.BadArgument
            /\ cmd' = Set(cmd, p, "users")
            /\ result' = Set(result, p, "BadArgument")
            /\ pc' = Set(pc, p, "done")
            /\ file0' = Set(file0, p, file)
            /\ plot0' = Set(plot0, p, plot)
            /\ UNCHANGED <<days, limit, users, i, uid_order, user_names,
                           num_messages, graph_data, retrieved_users, api_data,
                           status, num_samples, sample_distance, w, samples,
                           requests, outgoing, reply, file, plot>>
       ELSE Build(p, "users", clamp(d, DaysLow, DaysHigh), 0,
                  Some(Slice(members, MembersMax)))

\* the answer to the window request of create_graph_messages
WindowResponse(p, r) ==
    /\ pc[p] = "await_window"
    /\ status' = Set(status, p, r.status)
    /\ IF StatusFails(r)
       THEN /\ BuildFails(p)
            /\ UNCHANGED <<api_data, uid_order, user_names, num_messages,
                           graph_data, i, requests>>
       ELSE /\ api_data' = Set(api_data, p, JsonList(r.body))
            /\ IF NoData(r.body)
               THEN /\ BuildFails(p)
                    /\ UNCHANGED <<uid_order, user_names, num_messages,
                                   graph_data, i, requests>>
               ELSE LET order == KeyOrder(r.body)
                        names == UserNames(r.body)
                        totals == NumMessages(r.body)
                        gd == SeedSeries(names)
                    IN  /\ uid_order' = Set(uid_order, p, order)
                        /\ user_names' = Set(user_names, p, names)
                        /\ num_messages' = Set(num_messages, p, totals)
                        /\ graph_data' = Set(graph_data, p, gd)
                        \* `range(days)` has a first index when 0 < days
                        /\ IF MoreDays(days[p], -1)
                           THEN /\ i' = Set(i, p, 0)
                                /\ requests' = Set(requests, p,
                                      Append(requests[p], DayRequest(days[p], 0, order)))
                                /\ pc' = Set(pc, p, "await_day")
                                /\ UNCHANGED <<result, outgoing, file, plot>>
                           ELSE /\ Finish(p, order, names, totals, gd)
                                /\ UNCHANGED <<i, requests>>
    /\ UNCHANGED <<cmd, args, days, limit, users, retrieved_users, num_samples,
                   sample_distance, w, samples, reply, file0, plot0>>

\* the answer to the request of day i[p] of create_graph_messages
DayResponse(p, r) ==
    /\ pc[p] = "await_day"
    /\ status' = Set(status, p, r.status)
    /\ IF StatusFails(r)
       THEN /\ BuildFails(p)
            /\ UNCHANGED <<api_data, retrieved_users, user_names, graph_data,
                           i, requests>>
       ELSE LET retrieved == RetrievedUsers(r.body)
                gd == AppendDay(graph_data[p], retrieved, i[p])
                names == RenameUsers(user_names[p], retrieved)
            IN  /\ retrieved_users' = Set(retrieved_users, p, retrieved)
                /\ api_data' = Set(api_data, p,
                                   ApiDataAfterDay(r.body, uid_order[p], retrieved))
                /\ graph_data' = Set(graph_data, p, gd)
                /\ user_names' = Set(user_names, p, names)
                /\ IF MoreDays(days[p], i[p])
                   THEN /\ i' = Set(i, p, i[p] + 1)
                        /\ requests' = Set(requests, p,
                              Append(requests[p],
                                     DayRequest(days[p], i[p] + 1, uid_order[p])))
                        /\ UNCHANGED <<pc, result, outgoing, file, plot>>
                   ELSE /\ Finish(p, uid_order[p], names, num_messages[p], gd)
                        /\ UNCHANGED <<i, requests>>
    /\ UNCHANGED <<cmd, args, days, limit, users, uid_order, num_messages, num_samples,
                   sample_distance, w, samples, reply, file0, plot0>>

\* server after its loop: the reversal, the drawing, and the ctx.send
ServerFinish(p, num) ==
    LET reversed == Reverse(num)
        ctx == PltSubplots(plot)
    IN  /\ samples' = Set(samples, p, reversed)
        /\ file' = [writer |-> p, image |-> ServerImage(reversed)]
        /\ plot' = FigClear(ctx)
        /\ result' = Set(result, p, "True")
        /\ outgoing' = Set(outgoing, p, FileToSend)
        /\ pc' = Set(pc, p, "sending")

\* graph server [num_samples] [sample_distance]
Server(p, n, distance) ==
    /\ pc[p] = "idle"
    /\ args' = Set(args, p, [num_samples |-> n, sample_distance |-> distance])
    /\ cmd' = Set(cmd, p, "server")
    /\ num_samples' = Set(num_samples, p, n)
    /\ sample_distance' = Set(sample_distance, p, distance)
    /\ file0' = Set(file0, p, file)
    /\ plot0' = Set(plot0, p, plot)
    /\ IF n > 0
       THEN /\ w' = Set(w, p, 0)
            /\ requests' = Set(requests, p, << SampleRequest(0, distance) >>)
            /\ pc' = Set(pc, p, "await_sample")
            /\ UNCHANGED <<samples, result, outgoing, file, plot>>
       ELSE /\ ServerFinish(p, <<>>)
            /\ UNCHANGED <<w, requests>>
    /\ UNCHANGED <<days, limit, users, i, uid_order, user_names, num_messages,
                   graph_data, retrieved_users, api_data, status, reply>>

\* the answer to the request of sample w[p] of server
SampleResponse(p, r) ==
    /\ pc[p] = "await_sample"
    /\ status' = Set(status, p, r.status)
    /\ IF StatusFails(r)
       THEN /\ ServerFails(p)
            /\ UNCHANGED <<api_data, samples, w, requests>>
       ELSE /\ api_data' = Set(api_data, p, JsonList(r.body))
            /\ IF NoData(r.body)
               THEN /\ ServerFails(p)
                    /\ UNCHANGED <<samples, w, requests>>
               ELSE LET num == Append(samples[p],
                                   << DateLabel(w[p] * sample_distance[p]),
                                      SumMessages(r.body) >>)
                    IN  IF w[p] + 1 < num_samples[p]
                        THEN /\ samples' = Set(samples, p, num)
                             /\ w' = Set(w, p, w[p] + 1)
                             /\ requests' = Set(requests, p,
                                   Append(requests[p],
                                          SampleRequest(w[p] + 1, sample_distance[p])))
                             /\ UNCHANGED <<pc, result, outgoing, file, plot>>
                        ELSE /\ ServerFinish(p, num)
                             /\ UNCHANGED <<w, requests>>
    /\ UNCHANGED <<cmd, args, days, limit, users, i, uid_order, user_names,
                   num_messages, graph_data, retrieved_users, num_samples,
                   sample_distance, reply, file0, plot0>>

\* the image invocation p drew itself
OwnImage(p) ==
    IF cmd[p] = "server"
    THEN ServerImage(samples[p])
    ELSE UserImage(PltPlotAll(FreshPlot,
                      UserLines(uid_order[p], user_names[p], num_messages[p],
                                graph_data[p])),
                   days[p])

\* mutant of SendDone: the attachment is the invocation's own image, kept in
\* memory, not what the shared file holds
SendDoneOwnImage(p) ==
    /\ pc[p] = "sending"
    /\ reply' = Set(reply, p, IF outgoing[p] = FileToSend
                              THEN [kind |-> "file",
                                    file |-> [writer |-> p, image |-> OwnImage(p)]]
                              ELSE outgoing[p])
    /\ pc' = Set(pc, p, "done")
    /\ UNCHANGED <<locals, requests, result, outgoing, file, plot, file0, plot0>>

\* `await ctx.send(...)` completes: a text goes out as it was given, a file
\* goes out with what last_graph.png holds when it is read
SendDone(p) ==
    /\ pc[p] = "sending"
    /\ reply' = Set(reply, p, IF outgoing[p] = FileToSend
                              THEN [kind |-> "file", file |-> file]
                              ELSE outgoing[p])
    /\ pc' = Set(pc, p, "done")
    /\ UNCHANGED <<locals, requests, result, outgoing, file, plot, file0, plot0>>

----------------------------------------------------------------------------
(* Specifications *)

\* the state when the cog has been loaded and P invocations are about to
\* start; last_graph.png is absent or left by an earlier run of the bot
InitWith(P, files) ==
    /\ pc = [p \in P |-> "idle"]
    /\ cmd = [p \in P |-> "none"]
    /\ args = [p \in P |-> [none |-> TRUE]]
    /\ days = [p \in P |-> 0]
    /\ limit = [p \in P |-> 0]
    /\ users = [p \in P |-> None]
    /\ i = [p \in P |-> 0]
    /\ uid_order = [p \in P |-> <<>>]
    /\ user_names = [p \in P |-> EmptyDict]
    /\ num_messages = [p \in P |-> EmptyDict]
    /\ graph_data = [p \in P |-> EmptyDict]
    /\ retrieved_users = [p \in P |-> EmptyDict]
    /\ api_data = [p \in P |-> Unbound]
    /\ status = [p \in P |-> 0]
    /\ num_samples = [p \in P |-> 0]
    /\ sample_distance = [p \in P |-> 0]
    /\ w = [p \in P |-> 0]
    /\ samples = [p \in P |-> <<>>]
    /\ requests = [p \in P |-> <<>>]
    /\ result = [p \in P |-> "pending"]
    /\ outgoing = [p \in P |-> NoReply]
    /\ reply = [p \in P |-> NoReply]
    /\ file \in files
    /\ plot = FreshPlot
    /\ file0 = [p \in P |-> NoFile]
    /\ plot0 = [p \in P |-> FreshPlot]

\* Spec: one invocation, small arguments, every response of the bounded API
Args ==
    [n |-> {3},
     days |-> 1..MaxDaysArg,
     members |-> { <<>>, <<2, 1>> },
     samples |-> 0..MaxSamplesArg,
     distance |-> {1, DefaultDistance}]

Resps == [window |-> Responses, day |-> Responses, sample |-> Responses]

Init == InitWith({1}, {OldFile})

Next ==
    \/ \E p \in Procs, n \in Args.n, d \in Args.days : Top(p, n, d)
    \/ \E p \in Procs, members \in Args.members, d \in Args.days : Users(p, members, d)
    \/ \E p \in Procs, n \in Args.samples, distance \in Args.distance : Server(p, n, distance)
    \/ \E p \in Procs, r \in Resps.window : WindowResponse(p, r)
    \/ \E p \in Procs, r \in Resps.day : DayResponse(p, r)
    \/ \E p \in Procs, r \in Resps.sample : SampleResponse(p, r)
    \/ \E p \in Procs : SendDone(p)

Spec == Init /\ [][Next]_vars

\* SpecClamp: one invocation, arguments on both sides of every clamp and of
\* the member slice, the default server arguments, and an API whose answers
\* do not vary
OneRow == [discord_id |-> 1, user |-> <<"a", "#", "0", "0", "0", "1">>, messages |-> 1]

MemberList(n) == [k \in 1..n |-> 1 + (k % 2)]

ClampArgs ==
    [n |-> {-1, 0, 1, 5, TopHigh, TopHigh + 1, 15},
     days |-> {-1, 0, 1, 7, DaysHigh, DaysHigh + 1, 100},
     members |-> { MemberList(n) : n \in {0, 1, MembersMax - 1, MembersMax,
                                           MembersMax + 1, MembersMax + 2} },
     samples |-> {DefaultSamples},
     distance |-> {DefaultDistance}]

ClampResps ==
    [window |-> {Failure, Ok(<<>>), Ok(<<OneRow>>)},
     day |-> {Failure, Ok(<<OneRow>>)},
     sample |-> {Failure, Ok(<<>>), Ok(<<OneRow>>)}]

InitClamp == InitWith({1}, {NoFile})

NextClamp ==
    \/ \E p \in Procs, n \in ClampArgs.n, d \in ClampArgs.days : Top(p, n, d)
    \/ \E p \in Procs, members \in ClampArgs.members, d \in ClampArgs.days : Users(p, members, d)
    \/ \E p \in Procs, n \in ClampArgs.samples, distance \in ClampArgs.distance : Server(p, n, distance)
    \/ \E p \in Procs, r \in ClampResps.window : WindowResponse(p, r)
    \/ \E p \in Procs, r \in ClampResps.day : DayResponse(p, r)
    \/ \E p \in Procs, r \in ClampResps.sample : SampleResponse(p, r)
    \/ \E p \in Procs : SendDone(p)

SpecClamp == InitClamp /\ [][NextClamp]_vars

\* SpecRace: two invocations that interleave at their suspension points
RaceArgs ==
    [n |-> {1},
     days |-> {1},
     members |-> { <<>>, <<1>> },
     samples |-> {1},
     distance |-> {1}]

RaceResps ==
    [window |-> {Failure, Ok(<<OneRow>>)},
     day |-> {Failure, Ok(<<>>), Ok(<<OneRow>>)},
     sample |-> {Failure, Ok(<<OneRow>>)}]

InitRace == InitWith({1, 2}, {NoFile})

NextRace ==
    \/ \E p \in Procs, n \in RaceArgs.n, d \in RaceArgs.days : Top(p, n, d)
    \/ \E p \in Procs, members \in RaceArgs.members, d \in RaceArgs.days : Users(p, members, d)
    \/ \E p \in Procs, n \in RaceArgs.samples, distance \in RaceArgs.distance : Server(p, n, distance)
    \/ \E p \in Procs, r \in RaceResps.window : WindowResponse(p, r)
    \/ \E p \in Procs, r \in RaceResps.day : DayResponse(p, r)
    \/ \E p \in Procs, r \in RaceResps.sample : SampleResponse(p, r)
    \/ \E p \in Procs : SendDone(p)

SpecRace == InitRace /\ [][NextRace]_vars

----------------------------------------------------------------------------
(* Properties *)

Built(p) == cmd[p] \in {"top", "users"} /\ result[p] = "True"

Last(list) == list[Len(list)]

\* C1: when create_graph_messages succeeds, every user of the window
\* response has a series of exactly days + 1 points, the first one (0, 0),
\* with the day indexes 0, 1, ..., days in this order.
C1_SeriesShape ==
    \A p \in Procs :
        Built(p) =>
            /\ days[p] >= 1
            /\ DOMAIN num_messages[p] # {}
            /\ \A uid \in DOMAIN num_messages[p] :
                /\ uid \in DOMAIN graph_data[p]
                /\ Len(graph_data[p][uid]) = days[p] + 1
                /\ graph_data[p][uid][1] = <<0, 0>>
                /\ \A k \in 1..Len(graph_data[p][uid]) :
                       graph_data[p][uid][k][1] = k - 1

C1_Witness ==
    \E p \in Procs :
        /\ Built(p)
        /\ days[p] = 2
        /\ Cardinality(DOMAIN num_messages[p]) = 2

\* C2: after each day iteration the count appended for a tracked user is the
\* previous count when the day's response does not hold the user, and the
\* previous count plus the day's `messages` when it does.
C2_CarryForward ==
    \A p \in Procs :
        \A uid \in DOMAIN graph_data[p] :
            LET data == graph_data[p][uid]
                n == Len(data)
            IN  n >= 2 =>
                    data[n][2] =
                        IF uid \in DOMAIN retrieved_users[p]
                        THEN data[n - 1][2] + retrieved_users[p][uid].messages
                        ELSE data[n - 1][2]

C2_Witness ==
    \E p \in Procs :
        \E uid \in DOMAIN graph_data[p] :
            LET data == graph_data[p][uid]
            IN  /\ Len(data) = 3
                /\ data[2][2] = 1
                /\ uid \notin DOMAIN retrieved_users[p]
                /\ data[3][2] = 1
                /\ result[p] = "True"

\* C3: in every state the counts of each series are non-decreasing.
C3_NonDecreasing ==
    \A p \in Procs :
        \A uid \in DOMAIN graph_data[p] :
            \A k \in 1..(Len(graph_data[p][uid]) - 1) :
                graph_data[p][uid][k][2] <= graph_data[p][uid][k + 1][2]

C3_Witness ==
    \E p \in Procs :
        \E uid \in DOMAIN graph_data[p] :
            LET data == graph_data[p][uid]
            IN  /\ Len(data) = 3
                /\ data[1][2] < data[2][2]
                /\ data[2][2] < data[3][2]

\* the window request of create_graph_messages was answered 200 with []
EmptyWindow(p) ==
    /\ cmd[p] \in {"top", "users"}
    /\ status[p] = HTTP_OK
    /\ api_data[p].json = "list"
    /\ api_data[p].value = <<>>
    /\ DOMAIN num_messages[p] = {}

\* C4: when the window request is answered 200 with an empty array,
\* create_graph_messages returns False and the invocation has issued exactly
\* one request.
C4_EmptyWindowFails ==
    \A p \in Procs :
        EmptyWindow(p) =>
            /\ result[p] = "False"
            /\ pc[p] \in {"sending", "done"}
            /\ Len(requests[p]) = 1
            /\ requests[p][1].end = None

C4_Witness ==
    \E p \in Procs : EmptyWindow(p) /\ pc[p] = "done"

\* a daily request of create_graph_messages was answered with a status
\* other than 200
DayFailed(p) ==
    /\ cmd[p] \in {"top", "users"}
    /\ status[p] \notin {0, HTTP_OK}
    /\ Len(requests[p]) >= 2

\* C5: when the request of day index day is answered with a status other
\* than 200, create_graph_messages returns False at once: the invocation has
\* issued the window request and the requests of the days 0..day, no more.
C5_DayFailureStops ==
    \A p \in Procs :
        DayFailed(p) =>
            LET day == days[p] - Last(requests[p]).start
            IN  /\ result[p] = "False"
                /\ pc[p] \in {"sending", "done"}
                /\ day \in 0..(days[p] - 1)
                /\ Len(requests[p]) = 1 + (day + 1)
                /\ requests[p][1].end = None
                /\ \A k \in 2..Len(requests[p]) :
                    /\ requests[p][k].start = days[p] - (k - 2)
                    /\ requests[p][k].end = Some(days[p] - (k - 2) - 1)

C5_Witness ==
    \E p \in Procs :
        /\ DayFailed(p)
        /\ days[p] = 2
        /\ Len(requests[p]) = 3
        /\ pc[p] = "done"

\* C6: every invocation that passed the argument validation ends with a
\* reply: the image when the build succeeded, the text "Nothing found" when
\* it failed.
C6_AlwaysReplies ==
    \A p \in Procs :
        (pc[p] = "done" /\ result[p] \in {"True", "False"}) =>
            /\ result[p] = "True" => reply[p].kind = "file"
            /\ result[p] = "False" => reply[p] = NothingFound

\* C7: server asks for the most recent window first; when all num_samples
\* responses are 200 and not empty, the plotted sequence is the fetched one
\* reversed, each total being the sum of the `messages` of its response.
C7_ServerStep(p) ==
    LET distance == sample_distance[p]
        total == SumMessages(api_data'[p].value)
        fetched == Append(samples[p], << DateLabel(w[p] * distance), total >>)
        n == num_samples[p]
    IN  /\ (pc[p] = "await_sample" /\ pc'[p] = "await_sample" /\ w'[p] # w[p]) =>
                samples'[p] = fetched
        /\ (pc[p] = "await_sample" /\ pc'[p] = "sending") =>
                /\ n >= 1
                /\ Len(fetched) = n
                /\ Len(requests[p]) = n
                /\ \A k \in 1..n :
                    /\ requests[p][k].start = k * distance
                    /\ requests[p][k].end = Some((k - 1) * distance)
                    /\ fetched[k][1] = DateLabel((k - 1) * distance)
                /\ file'.image.kind = "server"
                /\ file'.image.values_x = [k \in 1..n |-> fetched[n + 1 - k][1]]
                /\ file'.image.values_y = [k \in 1..n |-> fetched[n + 1 - k][2]]

C7_ServerReversed == [][\A p \in Procs : C7_ServerStep(p)]_vars

C7_Witness ==
    \E p \in Procs :
        /\ cmd[p] = "server"
        /\ pc[p] = "done"
        /\ reply[p].kind = "file"
        /\ Len(reply[p].file.image.values_y) = 2
        /\ reply[p].file.image.values_y[1] # reply[p].file.image.values_y[2]

\* C8: on every failing path of create_graph_messages and of server the image
\* file and pyplot's state are what they were when the invocation started.
C8_FailureLeavesImage ==
    \A p \in Procs :
        result[p] = "False" => (file = file0[p] /\ plot = plot0[p])

C8_Witness ==
    \E p \in Procs :
        /\ result[p] = "False"
        /\ file = OldFile
        /\ Len(requests[p]) >= 2
        /\ pc[p] = "done"

C10_Step(p) ==
    /\ (pc[p] \in {"idle", "await_window", "await_day", "await_sample"}
            /\ pc'[p] = "sending" /\ result'[p] = "True") =>
                file'.writer = p
    /\ (pc[p] = "sending" /\ pc'[p] = "done" /\ outgoing[p] = FileToSend) =>
                reply'[p] = [kind |-> "file", file |-> file]

C10_SharedFile == [][\A p \in Procs : C10_Step(p)]_vars

C10_Witness ==
    \E p \in Procs :
        /\ pc[p] = "done"
        /\ result[p] = "True"
        /\ reply[p].kind = "file"
        /\ reply[p].file.writer \in Procs \ {p}

====
